---- MODULE Spec2Model ----
(***************************************************************************)
(* A model of generate_excel.py: process_excel_file and its helpers        *)
(* get_day_sheets, process_sheet_data, get_ref_price and get_top5_df.      *)
(*                                                                         *)
(* Representation.                                                         *)
(*   - A sheet name is a sequence of one-character strings, so that        *)
(*     lower-casing and prefix matching are computed, not assumed.         *)
(*   - A cell that may be blank (NaN) is a sequence: <<>> is NaN and <<v>> *)
(*     holds the value v.                                                  *)
(*   - A float that is a quotient of integers (a running average, a        *)
(*     break-even price) is a fraction [n |-> numerator, d |-> denominator]*)
(*     in lowest terms with d > 0.                                         *)
(*   - A DataFrame is a sequence of row records; a Series indexed by       *)
(*     strike is a function from the strikes.                              *)
(***************************************************************************)
EXTENDS Integers, Sequences, FiniteSets, TLC

VARIABLES
    input_source,         \* the argument of process_excel_file
    pc,                   \* the position inside process_excel_file
    day_sheets,           \* get_day_sheets(xl)
    idx,                  \* the loop index of the loop pc is in
    all_data,             \* the parsed sheets, each row tagged Sheet_Name/Sheet_Index
    strike_pricing_mode,  \* Strike -> "LTP" | "Standard"
    combined,             \* pd.concat(all_data) with the Ref_Price columns
    cum,                  \* the six cumulative trackers of the day loop
    daily_calculated_dfs, \* per day sheet, in insertion order, the day's subset
    dfs_to_concat,        \* the day blocks and gaps of the Total table
    final_total_df,       \* the Total table
    max_dfs,              \* the day blocks and gaps of the Max table
    final_max_df,         \* the Max table
    result,               \* what process_excel_file returned (or that it raised)
    first_run             \* what an earlier run on this workbook's source made

vars == <<input_source, pc, day_sheets, idx, all_data, strike_pricing_mode,
          combined, cum, daily_calculated_dfs, dfs_to_concat, final_total_df,
          max_dfs, final_max_df, result, first_run>>

(***************************************************************************)
(* Generic helpers.                                                        *)
(***************************************************************************)
NaN == <<>>

Num(v) == <<v>>

IsNaN(c) == c = <<>>

\* A cell holding a formula, with the value the workbook stores beside it
\* (the value Excel computed when it last saved the file).
Formula(v) == <<v, 1>>

\* A cell holding a formula with no value stored beside it.
FormulaNoValue == <<0, 0>>

IsFormula(c) == Len(c) = 2

Range(s) == {s[i] : i \in 1..Len(s)}

Min(a, b) == IF a <= b THEN a ELSE b

Abs(a) == IF a < 0 THEN -a ELSE a

RECURSIVE GCD(_, _)
GCD(a, b) == IF b = 0 THEN a ELSE GCD(b, a % b)

\* The quotient n / d (d > 0) in lowest terms.
Frac(n, d) ==
    LET g == GCD(Abs(n), d)
    IN  [n |-> n \div g, d |-> d \div g]

FracOfInt(i) == [n |-> i, d |-> 1]

\* i + f and i - f for an integer i and a fraction f.
IntPlusFrac(i, f) == Frac(i * f.d + f.n, f.d)

IntMinusFrac(i, f) == Frac(i * f.d - f.n, f.d)

RECURSIVE SumSeq(_)
SumSeq(s) == IF s = <<>> THEN 0 ELSE Head(s) + SumSeq(Tail(s))

RECURSIVE SortedAsc(_)
\* sorted(S) for a finite set of integers.
SortedAsc(S) ==
    IF S = {} THEN <<>>
    ELSE LET m == CHOOSE x \in S : \A y \in S : x <= y
         IN  <<m>> \o SortedAsc(S \ {m})

RECURSIVE SortedDesc(_)
SortedDesc(S) ==
    IF S = {} THEN <<>>
    ELSE LET m == CHOOSE x \in S : \A y \in S : x >= y
         IN  <<m>> \o SortedDesc(S \ {m})

RECURSIVE Flatten(_)
Flatten(ss) == IF ss = <<>> THEN <<>> ELSE Head(ss) \o Flatten(Tail(ss))

(***************************************************************************)
(* Strings: str.lower() and the day pattern.  A name is a sequence of      *)
(* characters; an ASCII character is written as itself, any other by its   *)
(* code point ("U+0130").                                                  *)
(***************************************************************************)
UpperLetters ==
    <<"A", "B", "C", "D", "E", "F", "G", "H", "I", "J", "K", "L", "M",
      "N", "O", "P", "Q", "R", "S", "T", "U", "V", "W", "X", "Y", "Z">>

LowerLetters ==
    <<"a", "b", "c", "d", "e", "f", "g", "h", "i", "j", "k", "l", "m",
      "n", "o", "p", "q", "r", "s", "t", "u", "v", "w", "x", "y", "z">>

\* LATIN CAPITAL LETTER I WITH DOT ABOVE
DottedCapitalI == "U+0130"

\* LATIN SMALL LETTER DOTLESS I
DotlessI == "U+0131"

\* LATIN SMALL LETTER LONG S
LongS == "U+017F"

\* COMBINING DOT ABOVE
CombiningDot == "U+0307"

\* LATIN CAPITAL LETTER E WITH ACUTE
CapitalEAcute == "U+00C9"

\* LATIN SMALL LETTER E WITH ACUTE
SmallEAcute == "U+00E9"

\* The one-to-one lower-case mapping of a character, the one the regular
\* expression engine applies to the text under re.IGNORECASE.
SimpleLower(c) ==
    IF \E i \in 1..Len(UpperLetters) : UpperLetters[i] = c
    THEN LowerLetters[CHOOSE i \in 1..Len(UpperLetters) : UpperLetters[i] = c]
    ELSE IF c = DottedCapitalI THEN "i"
    ELSE IF c = CapitalEAcute THEN SmallEAcute
    ELSE c

\* str.lower() of one character, as the characters it becomes: the dotted
\* capital I becomes 'i' followed by the combining dot.
LowerChar(c) ==
    IF c = DottedCapitalI THEN <<"i", CombiningDot>> ELSE <<SimpleLower(c)>>

\* sheet.lower()
Lower(s) == Flatten([i \in 1..Len(s) |-> LowerChar(s[i])])

\* The alternatives of r'^(tue|wed|thu|fri|mon|sun|sat)'.
DayTokens ==
    { <<"t", "u", "e">>, <<"w", "e", "d">>, <<"t", "h", "u">>, <<"f", "r", "i">>,
      <<"m", "o", "n">>, <<"s", "u", "n">>, <<"s", "a", "t">> }

\* The names the selection excludes: ['total', 'max'].
OutputNames == { <<"t", "o", "t", "a", "l">>, <<"m", "a", "x">> }

\* A case-sensitive match at the start of the name only.
MatchCaseSensitive(s) ==
    \E t \in DayTokens : Len(s) >= Len(t) /\ SubSeq(s, 1, Len(t)) = t

\* The characters re.IGNORECASE accepts for a pattern letter besides those
\* that lower-case to it: the dotless i for 'i', the long s for 's'.
IgnoreCaseFixes(p) ==
    IF p = "i" THEN {DotlessI} ELSE IF p = "s" THEN {LongS} ELSE {}

\* One text character against one pattern letter under re.IGNORECASE.
IgnoreCaseEq(c, p) == SimpleLower(c) = p \/ c \in IgnoreCaseFixes(p)

\* day_pattern.match(sheet): re.match anchors at the start; re.IGNORECASE.
DayPatternMatch(s) ==
    \E t \in DayTokens :
        Len(s) >= Len(t) /\ \A i \in 1..Len(t) : IgnoreCaseEq(s[i], t[i])

SelectsSheet(s) == DayPatternMatch(s) /\ Lower(s) \notin OutputNames

\* get_day_sheets over the workbook's sheet names, in the workbook's order.
get_day_sheets(sheet_names) == SelectSeq(sheet_names, SelectsSheet)

(***************************************************************************)
(* A day sheet.                                                            *)
(*   hdr  : the index of the row that holds the column names               *)
(*   cols : the columns of the sheet, each known by the name it is meant   *)
(*          to have, the second column of a name by "<name>.1"             *)
(*   written : the text of the header cell of each column whose header     *)
(*          cell is not written exactly as the program spells the name     *)
(*   rows : the rows below hdr, each a function from cols to cells         *)
(* A text is a name with the way it is written: its letter case, a blank   *)
(* before it, a blank after it, and the suffix pandas puts after it.       *)
(***************************************************************************)
\* nrows=10 of the preview read.
PreviewRows == 10

CallCols == {"Strike", "Chg in OI Value", "VWAP", "LTP (Chg %)"}

PutCols == {"Chg in OI Value.1", "VWAP.1", "LTP (Chg %).1"}

RequiredCols == CallCols \cup PutCols

\* The column of the same name to the left of a ".1" column.
FirstOf(col) ==
    IF col = "Chg in OI Value.1" THEN "Chg in OI Value"
    ELSE IF col = "VWAP.1" THEN "VWAP"
    ELSE IF col = "LTP (Chg %).1" THEN "LTP (Chg %)"
    ELSE col

Text(name, case, lead, trail, suffix) ==
    [name |-> name, case |-> case, lead |-> lead, trail |-> trail, suffix |-> suffix]

\* A name written as the program spells it, no blank around it.
Plain(name) == Text(name, "exact", FALSE, FALSE, "")

\* A string literal of the program that names a column.
Literal(col) == Text(FirstOf(col), "exact", FALSE, FALSE, IF col \in PutCols THEN ".1" ELSE "")

\* str.lower() of a text.
LowerText(t) == [t EXCEPT !.case = "lower"]

\* str.strip() of a text: the blank after the name is at the end of the text
\* only when no suffix follows it.
StripText(t) ==
    [t EXCEPT !.lead = FALSE, !.trail = IF t.suffix = "" THEN FALSE ELSE t.trail]

\* The text of the header cell of a column.
HeaderText(sheet, col) ==
    IF col \in DOMAIN sheet.written THEN sheet.written[col] ELSE Plain(FirstOf(col))

\* The column label pd.read_excel(header=header_row) makes of a header cell: a
\* text that a column to the left already has gets the suffix ".1".
ColumnLabel(sheet, col) ==
    IF /\ col \in PutCols
       /\ FirstOf(col) \in sheet.cols
       /\ HeaderText(sheet, FirstOf(col)) = HeaderText(sheet, col)
    THEN [HeaderText(sheet, col) EXCEPT !.suffix = ".1"]
    ELSE HeaderText(sheet, col)

\* df.columns after df.columns.astype(str).str.strip(): each column of the
\* sheet with its stripped label.
df_columns(sheet) == {<<c, StripText(ColumnLabel(sheet, c))>> : c \in sheet.cols}

\* The columns that df[col] names.
ColumnsNamed(columns, col) == {p[1] : p \in {q \in columns : q[2] = Literal(col)}}

\* 'strike' in row_str or 'chg in oi value' in row_str, for the cells of the
\* row as they are written, lower-cased and not stripped.
IsHeaderRow(sheet) ==
    \E c \in sheet.cols :
        LowerText(HeaderText(sheet, c)) \in {LowerText(Literal("Strike")),
                                      LowerText(Literal("Chg in OI Value"))}

\* The first preview row holding 'strike' or 'chg in oi value', else -1.
find_header_row(sheet) ==
    IF sheet.hdr < PreviewRows /\ IsHeaderRow(sheet) THEN sheet.hdr ELSE -1

\* A cell as pd.read_excel reads it: of a formula, the value stored beside it,
\* NaN when there is none.
ReadCell(c) ==
    IF IsFormula(c) THEN (IF c = FormulaNoValue THEN NaN ELSE Num(c[1])) ELSE c

\* df.get(col, 0) and the cols_to_fill default: a column that is not there reads 0.
ColumnOrZero(columns, row, col) ==
    LET named == ColumnsNamed(columns, col)
    IN  IF named # {} THEN ReadCell(row[CHOOSE c \in named : TRUE]) ELSE Num(0)

\* fillna(0)
FillNa0(c) == IF IsNaN(c) THEN 0 ELSE c[1]

RECURSIVE drop_duplicates(_, _)
\* drop_duplicates(subset=['Strike']): the first row of each strike is kept.
drop_duplicates(rows, seen) ==
    IF rows = <<>> THEN <<>>
    ELSE IF Head(rows).Strike \in seen
         THEN drop_duplicates(Tail(rows), seen)
         ELSE <<Head(rows)>> \o drop_duplicates(Tail(rows), seen \cup {Head(rows).Strike})

\* The typed columns of one raw row whose Strike is a number.
TypedRow(columns, row) ==
    [ Strike          |-> ColumnOrZero(columns, row, "Strike")[1],
      Call_Chg_OI_Val |-> FillNa0(ColumnOrZero(columns, row, "Chg in OI Value")),
      Call_VWAP       |-> FillNa0(ColumnOrZero(columns, row, "VWAP")),
      Call_LTP        |-> FillNa0(ColumnOrZero(columns, row, "LTP (Chg %)")),
      Put_Chg_OI_Val  |-> FillNa0(ColumnOrZero(columns, row, "Chg in OI Value.1")),
      Put_VWAP        |-> FillNa0(ColumnOrZero(columns, row, "VWAP.1")),
      Put_LTP         |-> FillNa0(ColumnOrZero(columns, row, "LTP (Chg %).1")) ]

\* The columns whose absence makes process_sheet_data return None:
\* df['Strike'] raises KeyError (caught), 'Chg in OI Value' is tested.
EssentialCols == {"Strike", "Chg in OI Value"}

\* Two columns have the stripped name col: df[col] and df.get(col, 0) are then
\* a DataFrame, pd.to_numeric raises TypeError, and the except clause returns
\* None.
NameClash(columns, col) == Cardinality(ColumnsNamed(columns, col)) > 1

NoneDf == [ok |-> FALSE, rows |-> <<>>]

\* process_sheet_data(xl, sheet_name): [ok |-> FALSE] is None.
process_sheet_data(sheet) ==
    IF find_header_row(sheet) = -1 THEN NoneDf
    ELSE LET columns == df_columns(sheet)
         IN  IF \E col \in EssentialCols : ColumnsNamed(columns, col) = {} THEN NoneDf
             ELSE IF \E col \in RequiredCols : NameClash(columns, col) THEN NoneDf
             ELSE LET HasStrike(r) == ~IsNaN(ColumnOrZero(columns, r, "Strike"))
                      kept  == SelectSeq(sheet.rows, HasStrike)
                      typed == [i \in 1..Len(kept) |-> TypedRow(columns, kept[i])]
                  IN  [ok |-> TRUE, rows |-> drop_duplicates(typed, {})]

\* df['Sheet_Name'] = sheet; df['Sheet_Index'] = idx
TagRows(rows, sheet_name, sheet_index) ==
    [i \in 1..Len(rows) |->
        [ Strike          |-> rows[i].Strike,
          Call_Chg_OI_Val |-> rows[i].Call_Chg_OI_Val,
          Call_VWAP       |-> rows[i].Call_VWAP,
          Call_LTP        |-> rows[i].Call_LTP,
          Put_Chg_OI_Val  |-> rows[i].Put_Chg_OI_Val,
          Put_VWAP        |-> rows[i].Put_VWAP,
          Put_LTP         |-> rows[i].Put_LTP,
          Sheet_Name      |-> sheet_name,
          Sheet_Index     |-> sheet_index ]]

(***************************************************************************)
(* Pricing mode and reference price.                                       *)
(***************************************************************************)
StrikesOf(df) == {df[i].Strike : i \in 1..Len(df)}

\* group.sort_values('Sheet_Index').iloc[0] for the group of one strike.
first_day(df, strike) ==
    LET group == {df[i] : i \in {j \in 1..Len(df) : df[j].Strike = strike}}
    IN  CHOOSE r \in group : \A q \in group : r.Sheet_Index <= q.Sheet_Index

\* The strike's record of the last day it appears on.
last_day(df, strike) ==
    LET group == {df[i] : i \in {j \in 1..Len(df) : df[j].Strike = strike}}
    IN  CHOOSE r \in group : \A q \in group : r.Sheet_Index >= q.Sheet_Index

\* The mode decided from the latest record instead of the earliest.
ModeOfStrikeLastDay(df, strike) ==
    IF last_day(df, strike).Call_VWAP <= 0 THEN "LTP" ELSE "Standard"

\* The mode decided from the record of day index 0 only, Standard without one.
ModeOfStrikeDayZero(df, strike) ==
    IF \E i \in 1..Len(df) : df[i].Strike = strike /\ df[i].Sheet_Index = 0
    THEN IF first_day(df, strike).Call_VWAP <= 0 THEN "LTP" ELSE "Standard"
    ELSE "Standard"

\* The mode of one strike, from its earliest record's call VWAP.
ModeOfStrike(df, strike) ==
    IF first_day(df, strike).Call_VWAP <= 0 THEN "LTP" ELSE "Standard"

\* The loop over combined.groupby('Strike').
PricingModes(df) == [s \in StrikesOf(df) |-> ModeOfStrike(df, s)]

SideVWAP(row, side) == IF side = "Call" THEN row.Call_VWAP ELSE row.Put_VWAP

SideLTP(row, side) == IF side = "Call" THEN row.Call_LTP ELSE row.Put_LTP

SideMoney(row, side) ==
    IF side = "Call" THEN row.Call_Chg_OI_Val ELSE row.Put_Chg_OI_Val

\* The reference price re-decided on every row: the mode is not consulted.
get_ref_price_per_day(modes, row, side) ==
    IF SideVWAP(row, side) > 0 THEN SideVWAP(row, side) ELSE SideLTP(row, side)

\* get_ref_price(row, side) with the mode table as a parameter.
get_ref_price(modes, row, side) ==
    LET mode == IF row.Strike \in DOMAIN modes THEN modes[row.Strike] ELSE "Standard"
        vwap == SideVWAP(row, side)
        ltp  == SideLTP(row, side)
    IN  IF mode = "LTP" THEN ltp
        ELSE IF vwap > 0 THEN vwap ELSE ltp

\* combined with Call_Ref_Price and Put_Ref_Price (the per-row BEP columns of
\* lines 154-155 are never read again and are left out).
WithRefPrices(df, modes) ==
    [i \in 1..Len(df) |->
        [ Strike          |-> df[i].Strike,
          Call_Chg_OI_Val |-> df[i].Call_Chg_OI_Val,
          Put_Chg_OI_Val  |-> df[i].Put_Chg_OI_Val,
          Call_Ref_Price  |-> get_ref_price(modes, df[i], "Call"),
          Put_Ref_Price   |-> get_ref_price(modes, df[i], "Put"),
          Sheet_Name      |-> df[i].Sheet_Name,
          Sheet_Index     |-> df[i].Sheet_Index ]]

(***************************************************************************)
(* The day loop: cumulative money, running reference sums and counts.      *)
(***************************************************************************)
\* The six trackers, all zero, over base_df.index.
InitCum(index) ==
    [ ce_money     |-> [s \in index |-> 0],
      pe_money     |-> [s \in index |-> 0],
      ce_ref_sum   |-> [s \in index |-> 0],
      ce_ref_count |-> [s \in index |-> 0],
      pe_ref_sum   |-> [s \in index |-> 0],
      pe_ref_count |-> [s \in index |-> 0] ]

\* combined[combined['Sheet_Name'] == sheet].set_index('Strike').reindex(index):
\* per strike the sheet's row, or NaN where the sheet has none.
DayData(df, sheet, index) ==
    [s \in index |->
        LET rs == {df[i] : i \in {j \in 1..Len(df) :
                                    df[j].Sheet_Name = sheet /\ df[j].Strike = s}}
        IN  IF rs = {} THEN NaN ELSE Num(CHOOSE r \in rs : TRUE)]

\* Only a positive day's money is added.
current_money_positive(cell, side) ==
    IF IsNaN(cell) THEN 0
    ELSE LET m == IF side = "Call" THEN cell[1].Call_Chg_OI_Val
                  ELSE cell[1].Put_Chg_OI_Val
         IN  IF m > 0 THEN m ELSE 0

\* day_data['Call_Chg_OI_Val'].fillna(0), day_data['Put_Chg_OI_Val'].fillna(0)
current_money(cell, side) ==
    IF IsNaN(cell) THEN 0
    ELSE IF side = "Call" THEN cell[1].Call_Chg_OI_Val ELSE cell[1].Put_Chg_OI_Val

\* day_data['Call_Ref_Price'], day_data['Put_Ref_Price']: NaN where no row.
day_ref_price(cell, side) ==
    IF IsNaN(cell) THEN NaN
    ELSE IF side = "Call" THEN Num(cell[1].Call_Ref_Price)
         ELSE Num(cell[1].Put_Ref_Price)

\* valid_ce_mask / valid_pe_mask: notna() & (> 0)
valid_mask(ref) == ~IsNaN(ref) /\ ref[1] > 0

\* The term cum_*_ref_sum adds: the day's reference price with NaN as 0.
\* The mask is not applied to it.
ref_sum_term(ref) == FillNa0(ref)

\* Every day counts in the denominator, a day without a record too.
ref_count_every_day(ref) == 1

\* The term cum_*_ref_count adds: valid mask as an integer.
ref_count_term(ref) == IF valid_mask(ref) THEN 1 ELSE 0

\* One pass of the loop body, lines 192-227, on the trackers.
FoldDayCum(c, day_data, index) ==
    [ ce_money     |-> [s \in index |-> c.ce_money[s] + current_money(day_data[s], "Call")],
      pe_money     |-> [s \in index |-> c.pe_money[s] + current_money(day_data[s], "Put")],
      ce_ref_sum   |-> [s \in index |->
                          c.ce_ref_sum[s] + ref_sum_term(day_ref_price(day_data[s], "Call"))],
      ce_ref_count |-> [s \in index |->
                          c.ce_ref_count[s] + ref_count_term(day_ref_price(day_data[s], "Call"))],
      pe_ref_sum   |-> [s \in index |->
                          c.pe_ref_sum[s] + ref_sum_term(day_ref_price(day_data[s], "Put"))],
      pe_ref_count |-> [s \in index |->
                          c.pe_ref_count[s] + ref_count_term(day_ref_price(day_data[s], "Put"))] ]

\* sum.div(count).replace([inf, -inf], 0).fillna(0)
running_avg(sum, count) == IF count = 0 THEN FracOfInt(0) ELSE Frac(sum, count)

\* ce_bep = index + avg_ce_ref
ce_bep_of(strike, avg) == IntPlusFrac(strike, avg)

\* The put break-even price computed with the call formula.
pe_bep_as_call(strike, avg) == IntPlusFrac(strike, avg)

\* pe_bep = index - avg_pe_ref
pe_bep_of(strike, avg) == IntMinusFrac(strike, avg)

\* subset (lines 229-251): the day's snapshot per strike.
Subset(c, index) ==
    [s \in index |->
        LET avg_ce == running_avg(c.ce_ref_sum[s], c.ce_ref_count[s])
            avg_pe == running_avg(c.pe_ref_sum[s], c.pe_ref_count[s])
        IN  [ CE_BEP     |-> ce_bep_of(s, avg_ce),
              CE_Money   |-> c.ce_money[s],
              PE_Money   |-> c.pe_money[s],
              PE_BEP     |-> pe_bep_of(s, avg_pe),
              Avg_CE_Ref |-> avg_ce,
              Avg_PE_Ref |-> avg_pe ]]

(***************************************************************************)
(* Tables.  An item of a column-wise concat is                             *)
(*   [columns |-> <<[day, name], ...>>, index |-> row labels, rows |-> ...]*)
(* where rows maps each row label to the row's cells, one per column.      *)
(***************************************************************************)
EmptyLabel == <<>>

Col(day, name) == [day |-> day, name |-> name]

TotalMetrics == <<"CE BEP", "CE Money", "PE Money", "PE BEP">>

\* display_subset with columns MultiIndex.from_product([[sheet], metrics]).
DisplaySubset(sheet, subset, index) ==
    [ columns |-> [i \in 1..Len(TotalMetrics) |-> Col(sheet, TotalMetrics[i])],
      index   |-> index,
      rows    |-> [s \in index |->
                     << Num(subset[s].CE_BEP), Num(subset[s].CE_Money),
                        Num(subset[s].PE_Money), Num(subset[s].PE_BEP) >>] ]

\* gap_df: one blank column ('', '') over the strikes.
TotalGap(index) ==
    [ columns |-> << Col(EmptyLabel, "") >>,
      index   |-> index,
      rows    |-> [s \in index |-> << NaN >>] ]

\* The last gap is kept.
PopNothing(items) == items

\* dfs_to_concat.pop() when the list is not empty.
PopLast(items) == IF items = <<>> THEN items ELSE SubSeq(items, 1, Len(items) - 1)

\* pd.concat(items, axis=1): the columns side by side over the union of the
\* items' row labels; an item without a row label reads NaN there.
ConcatColumns(items, index) ==
    [ columns |-> Flatten([i \in 1..Len(items) |-> items[i].columns]),
      index   |-> index,
      rows    |-> [r \in index |->
                     Flatten([i \in 1..Len(items) |->
                        IF r \in items[i].index THEN items[i].rows[r]
                        ELSE [k \in 1..Len(items[i].columns) |-> NaN]])] ]

(***************************************************************************)
(* get_top5_df.                                                            *)
(***************************************************************************)
\* head(5), and the 5 of "while len(res_data) < 5".
TopN == 5

\* The money of the other side.
MetricOfOtherSide(df_source, strike, side) ==
    IF side = "Call" THEN df_source[strike].PE_Money ELSE df_source[strike].CE_Money

MetricOf(df_source, strike, side) ==
    IF side = "Call" THEN df_source[strike].CE_Money ELSE df_source[strike].PE_Money

AvgRefOf(df_source, strike, side) ==
    IF side = "Call" THEN df_source[strike].Avg_CE_Ref ELSE df_source[strike].Avg_PE_Ref

\* df_source.sort_values(metric, ascending=False).head(5), as the set of the
\* strikes it keeps.  sort_values is called without kind=, so pandas sorts with
\* its default 'quicksort', which is not a stable sort: rows of equal money may
\* come out in any order.  Every outcome is a set of min(5, n) strikes such that
\* no strike left out has more money than one kept.
TopChoices(df_source, side) ==
    LET index == DOMAIN df_source
        k     == Min(TopN, Cardinality(index))
    IN  { T \in SUBSET index :
            /\ Cardinality(T) = k
            /\ \A s \in T : \A t \in index \ T :
                  MetricOf(df_source, s, side) >= MetricOf(df_source, t, side) }

\* What a stable descending sort followed by head(5) keeps: among equal money
\* the lower strike first.
StableTop(df_source, side) ==
    LET index == DOMAIN df_source
        Before(s, t) ==
            \/ MetricOf(df_source, s, side) > MetricOf(df_source, t, side)
            \/ /\ MetricOf(df_source, s, side) = MetricOf(df_source, t, side)
               /\ s < t
    IN  { s \in index : Cardinality({t \in index : Before(t, s)}) < TopN }

\* The sum over the whole universe instead of the selected rows.
MoneySumAll(df_source, top, side) ==
    SumSeq([i \in 1..Cardinality(DOMAIN df_source) |->
                MetricOf(df_source, SortedAsc(DOMAIN df_source)[i], side)])

\* top_calls[ce_metric].sum() / top_puts[pe_metric].sum()
MoneySum(df_source, top, side) ==
    SumSeq([i \in 1..Cardinality(top) |-> MetricOf(df_source, SortedAsc(top)[i], side)])

\* The selected rows left in ascending strike order.
DisplayOrderAsc(top) == SortedAsc(top)

\* sort_index(ascending=False) of the selected rows.
DisplayOrder(top) == SortedDesc(top)

\* res_data / sup_data: the selected rows, NaN rows up to 5, the totals row.
RankedRows(df_source, top, side) ==
    LET order == DisplayOrder(top)
        Bep(s) == IF side = "Call" THEN IntPlusFrac(s, AvgRefOf(df_source, s, side))
                  ELSE IntMinusFrac(s, AvgRefOf(df_source, s, side))
        data  == [i \in 1..Len(order) |->
                    << Num(order[i]),
                       Num(MetricOf(df_source, order[i], side)),
                       Num(AvgRefOf(df_source, order[i], side)),
                       Num(Bep(order[i])) >>]
        pad   == [i \in 1..(TopN - Len(order)) |-> << NaN, NaN, NaN, NaN >>]
        total == << NaN, Num(MoneySum(df_source, top, side)), NaN, NaN >>
    IN  data \o pad \o << total >>

CENames == <<"CE Strike", "Money", "AVWAP", "CE BEP">>

PENames == <<"PE Strike", "Money", "AVWAP", "PE BEP">>

\* get_top5_df(df_source, 'CE Money', 'PE Money', label) when the two head(5)
\* keep top_calls and top_puts: res_df, one blank column, sup_df.
get_top5_df(df_source, top_calls, top_puts, label) ==
    LET res   == RankedRows(df_source, top_calls, "Call")
        sup   == RankedRows(df_source, top_puts, "Put")
        names == CENames \o <<"">> \o PENames
    IN  [ columns |-> [i \in 1..Len(names) |-> Col(label, names[i])],
          index   |-> 0..(Len(res) - 1),
          rows    |-> [r \in 0..(Len(res) - 1) |-> res[r + 1] \o << NaN >> \o sup[r + 1]] ]

\* The gap between days: 2 blank columns over index=range(7).
MaxGapRows == 7

MaxGap ==
    [ columns |-> << Col(EmptyLabel, ""), Col(<<" ">>, " ") >>,
      index   |-> 0..(MaxGapRows - 1),
      rows    |-> [r \in 0..(MaxGapRows - 1) |-> << NaN, NaN >>] ]

\* The blocks one day can get: one per outcome of the two sorts.
DayBlocks(entry) ==
    { get_top5_df(entry.df, tc, tp, entry.sheet) :
        tc \in TopChoices(entry.df, "Call"), tp \in TopChoices(entry.df, "Put") }

RECURSIVE MaxItemLists(_)
\* The lists max_dfs can be after the loop of lines 364-373: per day its block
\* and a gap.
MaxItemLists(daily) ==
    IF daily = <<>> THEN { <<>> }
    ELSE { <<b, MaxGap>> \o rest :
             b \in DayBlocks(Head(daily)), rest \in MaxItemLists(Tail(daily)) }

UnionIndex(items) == UNION { items[i].index : i \in 1..Len(items) }

(***************************************************************************)
(* Inputs.  An input_source is                                             *)
(*   kind     : "bytes" | "file" | "path"                                  *)
(*   openable : open(path) / seek / read succeed                           *)
(*   valid    : the bytes are a workbook pd.ExcelFile can open             *)
(*   sheets   : the workbook's sheets, in the order they are stored        *)
(* Every day sheet of the inputs holds at least one row with a strike.     *)
(***************************************************************************)
Rec(cm, cv, cl, pm, pv, pl) ==
    [cm |-> cm, cv |-> cv, cl |-> cl, pm |-> pm, pv |-> pv, pl |-> pl]

\* call VWAP 0 (forces LTP when first), put VWAP positive and unlike put LTP
RecA == Rec(50, 0, 10, 30, 5, 6)

\* call VWAP positive and negative money; put VWAP 0 and put LTP 0
RecB == Rec(-20, 12, 11, -10, 0, 0)

\* no positive VWAP and negative LTP on both sides
RecC == Rec(40, 0, -4, 40, -1, -3)

Absent == Rec(0, 0, 0, 0, 0, 0)

RawRow(strike, rec) ==
    ("Strike" :> strike) @@ ("Chg in OI Value" :> Num(rec.cm)) @@
    ("VWAP" :> Num(rec.cv)) @@ ("LTP (Chg %)" :> Num(rec.cl)) @@
    ("Chg in OI Value.1" :> Num(rec.pm)) @@ ("VWAP.1" :> Num(rec.pv)) @@
    ("LTP (Chg %).1" :> Num(rec.pl))

RestrictRow(row, cols) == [c \in cols |-> row[c]]

\* A sheet whose header cells are written as the program spells them.
Sheet(name, hdr, cols, fullrows) ==
    [ name |-> name, hdr |-> hdr, cols |-> cols,
      written |-> <<>>,
      rows |-> [i \in 1..Len(fullrows) |-> RestrictRow(fullrows[i], cols)] ]

\* The rows of a content (strike -> record or Absent), in ascending strike order.
ContentRows(content) ==
    LET present == {s \in DOMAIN content : content[s] # Absent}
        order   == SortedAsc(present)
    IN  [i \in 1..Len(order) |-> RawRow(Num(order[i]), content[order[i]])]

\* A sheet the selection never reads.
OtherSheet(name) == Sheet(name, 0, {}, <<>>)

Digits == <<"1", "2", "3", "4", "5", "6", "7", "8", "9">>

DayNameStems ==
    << <<"t", "u", "e">>, <<"W", "E", "D">>, <<"T", "h", "u">>, <<"f", "r", "i">>,
       <<"M", "o", "n">>, <<"s", "a", "t">>, <<"S", "U", "N">> >>

\* The day sheet name of position i: "tue1", "WED2", "Thu3", ...
DayNameAt(i) == DayNameStems[((i - 1) % Len(DayNameStems)) + 1] \o << Digits[i] >>

NameTotal == <<"T", "o", "t", "a", "l">>

NameMax == <<"M", "a", "x">>

\* The other sheet name of position i: "Total", "Max", "notes3", ...
OtherNameAt(i) ==
    IF i = 1 THEN NameTotal
    ELSE IF i = 2 THEN NameMax
    ELSE <<"n", "o", "t", "e", "s">> \o << Digits[i] >>

Input(kind, openable, valid, sheets) ==
    [kind |-> kind, openable |-> openable, valid |-> valid, sheets |-> sheets]

GoodBytes(sheets) == Input("bytes", TRUE, TRUE, sheets)

\* A well-formed two-strike sheet used where the contents do not vary.
BasicContent == (100 :> RecA) @@ (200 :> RecB)

BasicSheet(name) == Sheet(name, 0, RequiredCols, ContentRows(BasicContent))

\* A sheet whose header row is below the preview.
LateHeaderSheet(name) == Sheet(name, PreviewRows, RequiredCols, ContentRows(BasicContent))

\* Inputs every specification starts from: each way of handing over a
\* workbook, readable or not, a workbook that is not one, a workbook with no
\* day sheet, one whose only day sheet does not parse, and one that holds a
\* sheet named like an output sheet in another letter case.
CommonInputs ==
    { Input(src[1], src[2], v, IF src[2] /\ v THEN << BasicSheet(DayNameAt(1)) >> ELSE <<>>) :
        src \in { <<"bytes", TRUE>>, <<"file", TRUE>>, <<"file", FALSE>>,
                  <<"path", TRUE>>, <<"path", FALSE>> },
        v \in BOOLEAN }
    \cup { GoodBytes(<< OtherSheet(OtherNameAt(1)), OtherSheet(OtherNameAt(3)) >>),
           GoodBytes(<< LateHeaderSheet(DayNameAt(1)) >>),
           GoodBytes(<< BasicSheet(DayNameAt(1)), OtherSheet(<<"M", "A", "X">>) >>) }

(***************************************************************************)
(* Spec: up to MaxSheets sheets over the strikes 100 and 200.  A sheet is  *)
(* drawn by a choice <<kind, a, b>>: a day sheet whose record of strike    *)
(* 100 is Recs100[a] and of strike 200 is Recs200[b], a day sheet whose    *)
(* header row is below the preview, or a sheet that is no day sheet.       *)
(***************************************************************************)
MaxSheets == 3

Recs100 == << RecA, RecB, RecC, Absent >>

Recs200 == << RecC, Absent >>

MainChoices ==
    ({ <<"day", a, b>> : a \in 1..Len(Recs100), b \in 1..Len(Recs200) }
        \ { <<"day", Len(Recs100), Len(Recs200)>> })
    \cup { <<"late", 1, 1>>, <<"other", 1, 1>> }

\* The sheet of position i under choice ch.
MainSheet(i, ch) ==
    IF ch[1] = "other" THEN OtherSheet(OtherNameAt(i))
    ELSE IF ch[1] = "late" THEN LateHeaderSheet(DayNameAt(i))
    ELSE Sheet(DayNameAt(i), 0, RequiredCols,
               ContentRows((100 :> Recs100[ch[2]]) @@ (200 :> Recs200[ch[3]])))

(***************************************************************************)
(* SpecTop: one day sheet over 1..TopStrikes strikes (100, 200, ...), each *)
(* strike's record drawn from TopRecs: strikes of one record tie on both   *)
(* sides, and the calls rank the two records the other way than the puts.  *)
(***************************************************************************)
TopStrikes == 6

TopRecs == << Rec(10, 5, 6, 10, 5, 6), Rec(-5, 0, 7, 20, 4, 6) >>

TopSheet(n, chs) ==
    Sheet(DayNameAt(1), 0, RequiredCols,
          [i \in 1..n |-> RawRow(Num(100 * i), TopRecs[chs[i]])])

(***************************************************************************)
(* SpecNames: up to MaxNames sheets whose names are drawn from NamePool;   *)
(* what a sheet holds is fixed by its name.                                *)
(***************************************************************************)
MaxNames == 3

NamePool ==
    << <<"t", "u", "e">>,
       <<"W", "E", "D", "6">>,
       <<"F", "r", DottedCapitalI, "2">>,
       <<LongS, "a", "t">>,
       <<"s", "t", "u", "e">>,
       <<"m", "o">>,
       <<"T", "o", "t", "a", "l">>,
       <<"t", "o", "t", "a", "l">>,
       <<"M", "A", "X">>,
       <<"f", "r", DotlessI>> >>

NamedContents ==
    << (100 :> RecA), (100 :> RecB), (100 :> RecC) @@ (200 :> RecA), (200 :> RecB) >>

\* The sheet named NamePool[j].
NamedSheet(j) ==
    Sheet(NamePool[j], 0, RequiredCols,
          ContentRows(NamedContents[((j - 1) % Len(NamedContents)) + 1]))

\* Sheet names of one workbook differ, also when letter case is ignored.
DistinctNames(js) ==
    \A a, b \in DOMAIN js : a # b => Lower(NamePool[js[a]]) # Lower(NamePool[js[b]])

(***************************************************************************)
(* SpecSheets: up to MaxFmtSheets day sheets, one of them with any of the  *)
(* header layouts of Formats, the others with one of a few of them.        *)
(***************************************************************************)
MaxFmtSheets == 2

\* A header layout: the header row, the columns, and the header cells that
\* are not written as the program spells them.
Fmt(hdr, cols, written) == [hdr |-> hdr, cols |-> cols, written |-> written]

AsWritten == <<>>

Padded(name) == Text(name, "exact", TRUE, FALSE, "")

PaddedAfter(name) == Text(name, "exact", FALSE, TRUE, "")

Upper(name) == Text(name, "upper", FALSE, FALSE, "")

Lowered(name) == Text(name, "lower", FALSE, FALSE, "")

Formats ==
    << Fmt(0, RequiredCols, AsWritten),
       Fmt(PreviewRows - 1, RequiredCols, AsWritten),
       Fmt(PreviewRows, RequiredCols, AsWritten),
       Fmt(0, RequiredCols \ {"Strike"}, AsWritten),
       Fmt(0, RequiredCols \ {"Chg in OI Value", "Chg in OI Value.1"}, AsWritten),
       Fmt(0, RequiredCols \ {"Strike", "Chg in OI Value", "Chg in OI Value.1"}, AsWritten),
       Fmt(0, RequiredCols \ {"Chg in OI Value.1"}, AsWritten),
       Fmt(0, RequiredCols \ {"VWAP", "VWAP.1"}, AsWritten),
       Fmt(0, RequiredCols \ {"VWAP.1"}, AsWritten),
       Fmt(0, RequiredCols \ {"LTP (Chg %)", "LTP (Chg %).1"}, AsWritten),
       Fmt(0, RequiredCols \ {"LTP (Chg %).1"}, AsWritten),
       \* ' Strike', ' Chg in OI Value', ' Chg in OI Value'
       Fmt(0, RequiredCols,
           ("Strike" :> Padded("Strike")) @@
           ("Chg in OI Value" :> Padded("Chg in OI Value")) @@
           ("Chg in OI Value.1" :> Padded("Chg in OI Value"))),
       \* 'Strike ' beside the other names as the program spells them
       Fmt(0, RequiredCols, ("Strike" :> PaddedAfter("Strike"))),
       \* 'STRIKE', 'CHG IN OI VALUE', 'CHG IN OI VALUE'
       Fmt(0, RequiredCols,
           ("Strike" :> Upper("Strike")) @@
           ("Chg in OI Value" :> Upper("Chg in OI Value")) @@
           ("Chg in OI Value.1" :> Upper("Chg in OI Value"))),
       \* 'chg in oi value' twice, beside 'Strike'
       Fmt(0, RequiredCols,
           ("Chg in OI Value" :> Lowered("Chg in OI Value")) @@
           ("Chg in OI Value.1" :> Lowered("Chg in OI Value"))),
       \* 'VWAP ' twice: pandas labels the second 'VWAP .1'
       Fmt(0, RequiredCols,
           ("VWAP" :> PaddedAfter("VWAP")) @@ ("VWAP.1" :> PaddedAfter("VWAP"))),
       \* ' VWAP' and 'VWAP': two labels that strip to the same name
       Fmt(0, RequiredCols, ("VWAP" :> Padded("VWAP"))),
       \* 'vwap' twice and 'LTP (CHG %)' twice
       Fmt(0, RequiredCols,
           ("VWAP" :> Lowered("VWAP")) @@ ("VWAP.1" :> Lowered("VWAP")) @@
           ("LTP (Chg %)" :> Upper("LTP (Chg %)")) @@
           ("LTP (Chg %).1" :> Upper("LTP (Chg %)"))) >>

\* A row without a strike, a repeated strike, blank cells and a formula.
MessyRows ==
    << RawRow(Num(100), RecA),
       RawRow(NaN, RecB),
       RawRow(Num(100), RecB),
       ("Strike" :> Num(200)) @@ ("Chg in OI Value" :> NaN) @@
       ("VWAP" :> NaN) @@ ("LTP (Chg %)" :> Formula(9)) @@
       ("Chg in OI Value.1" :> Num(15)) @@ ("VWAP.1" :> NaN) @@
       ("LTP (Chg %).1" :> NaN) >>

FmtRows == << ContentRows(BasicContent), MessyRows >>

\* The layouts and row lists a sheet of SpecSheets is drawn from, as pairs of
\* an index into Formats and an index into FmtRows.
FmtChoices ==
    << <<1, 1>>, <<1, 2>>, <<2, 1>>, <<3, 1>>, <<4, 2>>, <<5, 1>>, <<6, 1>>,
       <<7, 1>>, <<7, 2>>, <<8, 2>>, <<9, 1>>, <<10, 2>>, <<11, 1>>,
       <<12, 1>>, <<13, 2>>, <<14, 1>>, <<15, 1>>, <<16, 2>>, <<17, 1>>, <<18, 2>> >>

\* What the other sheets of a workbook of SpecSheets are drawn from: a sheet
\* as the program expects it, one without VWAP columns, one whose essential
\* header cells have a blank before the name, one whose header row is too low.
OtherChoices == << <<1, 1>>, <<8, 2>>, <<12, 1>>, <<3, 1>> >>

FmtSheet(i, ch) ==
    LET fmt == Formats[ch[1]]
    IN  [Sheet(DayNameAt(i), fmt.hdr, fmt.cols, FmtRows[ch[2]]) EXCEPT !.written = fmt.written]

(***************************************************************************)
(* process_excel_file as a state machine.                                  *)
(***************************************************************************)
EmptyTable == [columns |-> <<>>, index |-> <<>>, rows |-> <<>>]

Pending == [kind |-> "pending", sheets |-> <<>>]

\* return None, and the bare return of line 118
ReturnNone == [kind |-> "None", sheets |-> <<>>]

\* An exception leaves process_excel_file.
Raised == [kind |-> "raised", sheets |-> <<>>]

\* return buffer.getvalue(): the workbook, by the names of its sheets.
ReturnBytes(sheets) == [kind |-> "bytes", sheets |-> sheets]

SheetNames(src) == [i \in 1..Len(src.sheets) |-> src.sheets[i].name]

SheetByName(src, name) == CHOOSE sh \in Range(src.sheets) : sh.name = name

\* No earlier run: process_excel_file is called on a workbook for the first time.
NoRun ==
    [ ran |-> FALSE, source |-> <<>>, day_sheets |-> <<>>, daily |-> <<>>,
      max_dfs |-> <<>>, total |-> EmptyTable, max |-> EmptyTable, sheets |-> <<>> ]

InitRest ==
    /\ pc = "start"
    /\ day_sheets = <<>>
    /\ idx = 0
    /\ all_data = <<>>
    /\ strike_pricing_mode = <<>>
    /\ combined = <<>>
    /\ cum = InitCum({})
    /\ daily_calculated_dfs = <<>>
    /\ dfs_to_concat = <<>>
    /\ final_total_df = EmptyTable
    /\ max_dfs = <<>>
    /\ final_max_df = EmptyTable
    /\ result = Pending
    /\ first_run = NoRun

Init ==
    /\ \/ \E n \in 1..MaxSheets : \E chs \in [1..n -> MainChoices] :
             input_source = GoodBytes([i \in 1..n |-> MainSheet(i, chs[i])])
       \/ input_source \in CommonInputs
    /\ InitRest

\* Lines 85-94: open(input_source, 'rb'), seek and read are outside every try.
LoadRaises ==
    /\ pc = "start"
    /\ input_source.kind \in {"path", "file"}
    /\ ~input_source.openable
    /\ pc' = "done"
    /\ result' = Raised
    /\ UNCHANGED <<first_run, input_source, day_sheets, idx, all_data, strike_pricing_mode,
                   combined, cum, daily_calculated_dfs, dfs_to_concat,
                   final_total_df, max_dfs, final_max_df>>

\* Lines 97-101: pd.ExcelFile(buffer) raises, the function returns None.
OpenFails ==
    /\ pc = "start"
    /\ input_source.openable
    /\ ~input_source.valid
    /\ pc' = "done"
    /\ result' = ReturnNone
    /\ UNCHANGED <<first_run, input_source, day_sheets, idx, all_data, strike_pricing_mode,
                   combined, cum, daily_calculated_dfs, dfs_to_concat,
                   final_total_df, max_dfs, final_max_df>>

\* Lines 84-106: the workbook opens; day_sheets = get_day_sheets(xl).
OpenWorkbook ==
    /\ pc = "start"
    /\ input_source.openable
    /\ input_source.valid
    /\ day_sheets' = get_day_sheets(SheetNames(input_source))
    /\ idx' = 0
    /\ all_data' = <<>>
    /\ pc' = "parse"
    /\ UNCHANGED <<first_run, input_source, strike_pricing_mode, combined, cum,
                   daily_calculated_dfs, dfs_to_concat, final_total_df, max_dfs,
                   final_max_df, result>>

\* Lines 109-114: one pass of the loop over enumerate(day_sheets).
ParseSheet ==
    /\ pc = "parse"
    /\ idx < Len(day_sheets)
    /\ LET sheet == day_sheets[idx + 1]
           df    == process_sheet_data(SheetByName(input_source, sheet))
       IN  all_data' = IF df.ok THEN Append(all_data, TagRows(df.rows, sheet, idx))
                       ELSE all_data
    /\ idx' = idx + 1
    /\ UNCHANGED <<first_run, input_source, pc, day_sheets, strike_pricing_mode, combined, cum,
                   daily_calculated_dfs, dfs_to_concat, final_total_df, max_dfs,
                   final_max_df, result>>

\* Lines 116-118: no sheet parsed (or none was selected).
NoValidData ==
    /\ pc = "parse"
    /\ idx = Len(day_sheets)
    /\ all_data = <<>>
    /\ pc' = "done"
    /\ result' = ReturnNone
    /\ UNCHANGED <<first_run, input_source, day_sheets, idx, all_data, strike_pricing_mode,
                   combined, cum, daily_calculated_dfs, dfs_to_concat,
                   final_total_df, max_dfs, final_max_df>>

\* Lines 120-188: concat, the pricing modes, the reference prices, the trackers.
ApplyPricing ==
    /\ pc = "parse"
    /\ idx = Len(day_sheets)
    /\ all_data # <<>>
    /\ LET df    == Flatten(all_data)
           modes == PricingModes(df)
       IN  /\ strike_pricing_mode' = modes
           /\ combined' = WithRefPrices(df, modes)
           /\ cum' = InitCum(StrikesOf(df))
    /\ daily_calculated_dfs' = <<>>
    /\ dfs_to_concat' = <<>>
    /\ idx' = 0
    /\ pc' = "fold"
    /\ UNCHANGED <<first_run, input_source, day_sheets, all_data, final_total_df, max_dfs,
                   final_max_df, result>>

\* Lines 190-265: one pass of the day loop.
FoldDay ==
    /\ pc = "fold"
    /\ idx < Len(day_sheets)
    /\ LET sheet    == day_sheets[idx + 1]
           index    == StrikesOf(combined)
           day_data == DayData(combined, sheet, index)
           c        == FoldDayCum(cum, day_data, index)
           subset   == Subset(c, index)
       IN  /\ cum' = c
           /\ daily_calculated_dfs' =
                  Append(daily_calculated_dfs, [sheet |-> sheet, df |-> subset])
           /\ dfs_to_concat' =
                  dfs_to_concat \o << DisplaySubset(sheet, subset, index), TotalGap(index) >>
    /\ idx' = idx + 1
    /\ UNCHANGED <<first_run, input_source, pc, day_sheets, all_data, strike_pricing_mode,
                   combined, final_total_df, max_dfs, final_max_df, result>>

\* Lines 267-276: drop the last gap, concat the blocks beside base_df.
AssembleTotal ==
    /\ pc = "fold"
    /\ idx = Len(day_sheets)
    /\ LET items == PopLast(dfs_to_concat)
           table == ConcatColumns(items, StrikesOf(combined))
       IN  /\ dfs_to_concat' = items
           /\ final_total_df' = [ columns |-> table.columns,
                                  index   |-> SortedAsc(StrikesOf(combined)),
                                  rows    |-> table.rows ]
    /\ pc' = "max"
    /\ UNCHANGED <<first_run, input_source, day_sheets, idx, all_data, strike_pricing_mode,
                   combined, cum, daily_calculated_dfs, max_dfs, final_max_df, result>>

\* The sorts of lines 288 and 290 are functions of the frame they are given:
\* a run over the snapshots of an earlier run keeps the rows that run kept.
SameSortAsBefore(items) ==
    (first_run.ran /\ first_run.daily = daily_calculated_dfs) => items = first_run.max_dfs

\* Lines 281-382: a block and a gap per day, the last gap dropped, the concat,
\* the index blanked.
GenerateMax ==
    /\ pc = "max"
    /\ \E listed \in MaxItemLists(daily_calculated_dfs) :
          LET items == PopLast(listed)
              index == UnionIndex(items)
              table == ConcatColumns(items, index)
              n     == Cardinality(index)
          IN  /\ SameSortAsBefore(items)
              /\ max_dfs' = items
              /\ final_max_df' = [ columns |-> table.columns,
                                   index   |-> [i \in 1..n |-> ""],
                                   rows    |-> [i \in 1..n |-> table.rows[i - 1]] ]
    /\ pc' = "write"
    /\ UNCHANGED <<first_run, input_source, day_sheets, idx, all_data, strike_pricing_mode,
                   combined, cum, daily_calculated_dfs, dfs_to_concat,
                   final_total_df, result>>

\* A sheet whose name differs from `name` only in letter case: openpyxl then
\* titles the new sheet "<name>1", and writer.sheets[name] raises KeyError.
HasCaseVariant(names, name) ==
    \E i \in 1..Len(names) : names[i] # name /\ Lower(names[i]) = Lower(name)

\* to_excel(writer, sheet_name=name) with if_sheet_exists='replace': a sheet of
\* that name is replaced where it stands, else the sheet is added at the end.
WriteSheet(names, name) ==
    IF \E i \in 1..Len(names) : names[i] = name THEN names ELSE Append(names, name)

\* Lines 384-495: both sheets are written and the buffer is returned.
WriteWorkbook ==
    /\ pc = "write"
    /\ ~HasCaseVariant(SheetNames(input_source), NameTotal)
    /\ ~HasCaseVariant(SheetNames(input_source), NameMax)
    /\ result' = ReturnBytes(WriteSheet(WriteSheet(SheetNames(input_source), NameTotal),
                                        NameMax))
    /\ pc' = "done"
    /\ UNCHANGED <<first_run, input_source, day_sheets, idx, all_data, strike_pricing_mode,
                   combined, cum, daily_calculated_dfs, dfs_to_concat,
                   final_total_df, max_dfs, final_max_df>>

\* Lines 399 and 459: writer.sheets['Max'] / writer.sheets['Total'] raise.
WriteRaises ==
    /\ pc = "write"
    /\ \/ HasCaseVariant(SheetNames(input_source), NameTotal)
       \/ HasCaseVariant(SheetNames(input_source), NameMax)
    /\ result' = Raised
    /\ pc' = "done"
    /\ UNCHANGED <<first_run, input_source, day_sheets, idx, all_data, strike_pricing_mode,
                   combined, cum, daily_calculated_dfs, dfs_to_concat,
                   final_total_df, max_dfs, final_max_df>>

Next ==
    \/ LoadRaises
    \/ OpenFails
    \/ OpenWorkbook
    \/ ParseSheet
    \/ NoValidData
    \/ ApplyPricing
    \/ FoldDay
    \/ AssembleTotal
    \/ GenerateMax
    \/ WriteWorkbook
    \/ WriteRaises

Spec == Init /\ [][Next]_vars

\* A report sheet as pd.read_excel would see it.  In Total, to_excel writes the
\* index name Strike in the third row, under the two rows of column labels, with
\* no other name beside it; Max has no cell that reads 'strike'.
ReportSheet(name) ==
    IF name = NameTotal THEN Sheet(name, 2, {"Strike"}, <<>>) ELSE Sheet(name, 0, {}, <<>>)

\* A cell after pd.ExcelWriter(mode='a', engine='openpyxl') has loaded the
\* workbook and saved it: a formula is kept, the value stored beside it is not.
SaveCell(c) == IF IsFormula(c) THEN FormulaNoValue ELSE c

SaveSheet(sheet) ==
    [sheet EXCEPT !.rows = [i \in 1..Len(sheet.rows) |->
                               [c \in sheet.cols |-> SaveCell(sheet.rows[i][c])]]]

\* The workbook in the returned buffer: the sheets of the source as loaded and
\* saved again, Total and Max replaced where they stood or added at the end.
OutputWorkbook(src) ==
    LET names == WriteSheet(WriteSheet(SheetNames(src), NameTotal), NameMax)
    IN  [i \in 1..Len(names) |->
            IF names[i] \in {NameTotal, NameMax} THEN ReportSheet(names[i])
            ELSE SaveSheet(src.sheets[i])]

\* The caller hands the returned bytes to process_excel_file again (app.py
\* offers them for download; the __main__ block writes them over the file).
Rerun ==
    /\ pc = "done"
    /\ result.kind = "bytes"
    /\ ~first_run.ran
    /\ first_run' = [ ran |-> TRUE, source |-> input_source.sheets,
                      day_sheets |-> day_sheets, daily |-> daily_calculated_dfs,
                      max_dfs |-> max_dfs, total |-> final_total_df,
                      max |-> final_max_df, sheets |-> result.sheets ]
    /\ input_source' = GoodBytes(OutputWorkbook(input_source))
    /\ pc' = "start"
    /\ day_sheets' = <<>>
    /\ idx' = 0
    /\ all_data' = <<>>
    /\ strike_pricing_mode' = <<>>
    /\ combined' = <<>>
    /\ cum' = InitCum({})
    /\ daily_calculated_dfs' = <<>>
    /\ dfs_to_concat' = <<>>
    /\ final_total_df' = EmptyTable
    /\ max_dfs' = <<>>
    /\ final_max_df' = EmptyTable
    /\ result' = Pending

NextRerun ==
    \/ Next
    \/ Rerun

InitTop ==
    /\ \/ \E n \in 1..TopStrikes : \E chs \in [1..n -> 1..Len(TopRecs)] :
             input_source = GoodBytes(<< TopSheet(n, chs) >>)
       \/ input_source \in CommonInputs
    /\ InitRest

SpecTop == InitTop /\ [][Next]_vars

InitNames ==
    /\ \/ \E n \in 1..MaxNames : \E js \in [1..n -> 1..Len(NamePool)] :
             /\ DistinctNames(js)
             /\ input_source = GoodBytes([i \in 1..n |-> NamedSheet(js[i])])
       \/ input_source \in CommonInputs
    /\ InitRest

SpecNames == InitNames /\ [][Next]_vars

\* A workbook of a day sheet whose header row is too low, a day sheet as the
\* program expects it, and a sheet named MAX.
SkippedParsedAndMax ==
    GoodBytes(<< LateHeaderSheet(DayNameAt(1)), BasicSheet(DayNameAt(2)),
                 OtherSheet(<<"M", "A", "X">>) >>)

InitSheets ==
    /\ \/ \E n \in 1..MaxFmtSheets :
             \E p \in 1..n : \E ch \in Range(FmtChoices) :
                \E others \in [(1..n) \ {p} -> Range(OtherChoices)] :
                   input_source = GoodBytes([i \in 1..n |->
                                       FmtSheet(i, IF i = p THEN ch ELSE others[i])])
       \/ input_source \in CommonInputs
       \/ input_source = SkippedParsedAndMax
    /\ InitRest

SpecSheets == InitSheets /\ [][Next]_vars

\* A day sheet with formulas: the call money of strike 100 and the strike of
\* the second row are computed by the sheet.
FormulaRows ==
    << [RawRow(Num(100), RecA) EXCEPT !["Chg in OI Value"] = Formula(RecA.cm)],
       RawRow(Formula(200), RecB) >>

FormulaSheet(name) == Sheet(name, 0, RequiredCols, FormulaRows)

\* The workbooks of SpecNames, one whose day sheet holds TopStrikes strikes of
\* equal money and one whose day sheet holds formulas, each run once and then
\* once more on what the first run returned.
InitRerun ==
    \/ InitNames
    \/ /\ input_source \in
             { GoodBytes(<< TopSheet(TopStrikes, [i \in 1..TopStrikes |-> 1]) >>),
               GoodBytes(<< FormulaSheet(DayNameAt(1)) >>) }
       /\ InitRest

SpecRerun == InitRerun /\ [][NextRerun]_vars

(***************************************************************************)
(* The records the claims are stated over: the parsed rows of every day,   *)
(* day k being the k-th selected sheet (Sheet_Index k - 1).                *)
(***************************************************************************)
Records == Flatten(all_data)

HasRecord(k, s) ==
    \E d \in DOMAIN all_data : \E i \in DOMAIN all_data[d] :
        all_data[d][i].Sheet_Index = k - 1 /\ all_data[d][i].Strike = s

RecordOf(k, s) ==
    LET d == CHOOSE x \in DOMAIN all_data : \E i \in DOMAIN all_data[x] :
                all_data[x][i].Sheet_Index = k - 1 /\ all_data[x][i].Strike = s
    IN  all_data[d][CHOOSE i \in DOMAIN all_data[d] : all_data[d][i].Strike = s]

\* The strike's record of the earliest day it has one.
EarliestRecord(s) ==
    RecordOf(CHOOSE k \in 1..Len(day_sheets) :
                HasRecord(k, s) /\ \A j \in 1..(k - 1) : ~HasRecord(j, s), s)

\* The day's raw money of a strike, 0 on a day without a record.
RawMoney(k, s, side) == IF HasRecord(k, s) THEN SideMoney(RecordOf(k, s), side) ELSE 0

RECURSIVE MoneyThrough(_, _, _)
MoneyThrough(k, s, side) ==
    IF k = 0 THEN 0 ELSE MoneyThrough(k - 1, s, side) + RawMoney(k, s, side)

\* The reference price process_excel_file used for the record of day k.
UsedRef(k, s, side) ==
    LET r == combined[CHOOSE i \in 1..Len(combined) :
                        combined[i].Sheet_Index = k - 1 /\ combined[i].Strike = s]
    IN  IF side = "Call" THEN r.Call_Ref_Price ELSE r.Put_Ref_Price

\* The days through k on which the strike's reference price was positive.
PositiveDays(k, s, side) ==
    {j \in 1..k : HasRecord(j, s) /\ UsedRef(j, s, side) > 0}

RECURSIVE SumRefs(_, _, _)
SumRefs(days, s, side) ==
    IF days = {} THEN 0
    ELSE LET j == CHOOSE d \in days : TRUE
         IN  UsedRef(j, s, side) + SumRefs(days \ {j}, s, side)

\* The mean of the positive reference prices through day k, 0 when none.
MeanOfPositive(k, s, side) ==
    LET days == PositiveDays(k, s, side)
    IN  IF days = {} THEN FracOfInt(0)
        ELSE Frac(SumRefs(days, s, side), Cardinality(days))

Days == 1..Len(daily_calculated_dfs)

Snapshot(k) == daily_calculated_dfs[k].df

TotalBuilt == final_total_df # EmptyTable

\* The cell of the Total table in the column labelled (sheet, metric).
TotalCell(sheet, metric, s) ==
    LET cols == final_total_df.columns
    IN  final_total_df.rows[s][CHOOSE i \in 1..Len(cols) : cols[i] = Col(sheet, metric)]

(***************************************************************************)
(* C1.  For every strike, side and day k, the cumulative money of day k,   *)
(* in the day's snapshot and in the Total table, is the sum over days 1..k *)
(* of the strike's raw money of that side, a day without a record adding   *)
(* 0 and negative money being added like any other.                        *)
(***************************************************************************)
C1_CumulativeMoney ==
    \A k \in Days : \A s \in DOMAIN Snapshot(k) :
        /\ Snapshot(k)[s].CE_Money = MoneyThrough(k, s, "Call")
        /\ Snapshot(k)[s].PE_Money = MoneyThrough(k, s, "Put")
        /\ TotalBuilt =>
              /\ TotalCell(day_sheets[k], "CE Money", s) = Num(MoneyThrough(k, s, "Call"))
              /\ TotalCell(day_sheets[k], "PE Money", s) = Num(MoneyThrough(k, s, "Put"))

\* A finished run in which a strike's cumulative call money fell from one day
\* to the next and the strike had a day without a record.
C1_Witness ==
    /\ pc = "done"
    /\ result.kind = "bytes"
    /\ \E s \in StrikesOf(combined) :
          /\ \E k \in Days : k + 1 \in Days /\
                Snapshot(k + 1)[s].CE_Money < Snapshot(k)[s].CE_Money
          /\ \E j \in Days : ~HasRecord(j, s)

(***************************************************************************)
(* C2.  For a strike whose first day has call VWAP <= 0, the reference     *)
(* price used on every day and for both sides is that day's LTP of the     *)
(* side, also on days whose VWAP is positive.                              *)
(***************************************************************************)
C2_ForceLTP ==
    \A i \in 1..Len(combined) :
        LET s   == combined[i].Strike
            raw == RecordOf(combined[i].Sheet_Index + 1, s)
        IN  EarliestRecord(s).Call_VWAP <= 0 =>
                /\ combined[i].Call_Ref_Price = raw.Call_LTP
                /\ combined[i].Put_Ref_Price = raw.Put_LTP

\* A finished run with a strike whose first call VWAP is <= 0 and which later
\* has a positive call VWAP unlike its LTP, and a positive put VWAP unlike its LTP.
C2_Witness ==
    /\ pc = "done"
    /\ \E s \in StrikesOf(combined) :
          /\ EarliestRecord(s).Call_VWAP <= 0
          /\ \E k \in Days : /\ HasRecord(k, s)
                             /\ RecordOf(k, s).Call_VWAP > 0
                             /\ RecordOf(k, s).Call_VWAP # RecordOf(k, s).Call_LTP
                             /\ UsedRef(k, s, "Call") = RecordOf(k, s).Call_LTP
          /\ \E k \in Days : /\ HasRecord(k, s)
                             /\ RecordOf(k, s).Put_VWAP > 0
                             /\ RecordOf(k, s).Put_VWAP # RecordOf(k, s).Put_LTP
                             /\ UsedRef(k, s, "Put") = RecordOf(k, s).Put_LTP

(***************************************************************************)
(* C3.  For every strike, side and day k, the running-average reference    *)
(* price is the mean of the side's reference prices over the days of 1..k  *)
(* on which it was positive, and 0 when there is no such day: a day whose  *)
(* reference price is <= 0 changes neither numerator nor denominator.      *)
(***************************************************************************)
C3_RunningAverage ==
    \A k \in Days : \A s \in DOMAIN Snapshot(k) :
        /\ Snapshot(k)[s].Avg_CE_Ref = MeanOfPositive(k, s, "Call")
        /\ Snapshot(k)[s].Avg_PE_Ref = MeanOfPositive(k, s, "Put")

(***************************************************************************)
(* C4.  At every day boundary and for every strike, the call break-even    *)
(* price of the Total table is strike + the day's running-average call     *)
(* reference price and the put break-even price is strike - the day's      *)
(* running-average put reference price; a side with no positive reference  *)
(* price so far has its break-even price equal to the strike.              *)
(***************************************************************************)
C4_BreakEven ==
    \A k \in Days : \A s \in DOMAIN Snapshot(k) :
        /\ Snapshot(k)[s].CE_BEP = IntPlusFrac(s, Snapshot(k)[s].Avg_CE_Ref)
        /\ Snapshot(k)[s].PE_BEP = IntMinusFrac(s, Snapshot(k)[s].Avg_PE_Ref)
        /\ PositiveDays(k, s, "Call") = {} => Snapshot(k)[s].CE_BEP = FracOfInt(s)
        /\ PositiveDays(k, s, "Put") = {} => Snapshot(k)[s].PE_BEP = FracOfInt(s)
        /\ TotalBuilt =>
              /\ TotalCell(day_sheets[k], "CE BEP", s) =
                     Num(IntPlusFrac(s, Snapshot(k)[s].Avg_CE_Ref))
              /\ TotalCell(day_sheets[k], "PE BEP", s) =
                     Num(IntMinusFrac(s, Snapshot(k)[s].Avg_PE_Ref))

\* The scenario of the specification: strike 100 with references 10 then 11
\* has call break-even 110 then 110.5; and a strike with a record but no
\* positive reference price has both break-even prices at the strike.
C4_Witness ==
    /\ pc = "done"
    /\ TotalBuilt
    /\ Len(day_sheets) >= 2
    /\ 100 \in StrikesOf(combined)
    /\ TotalCell(day_sheets[1], "CE BEP", 100) = Num(FracOfInt(110))
    /\ TotalCell(day_sheets[2], "CE BEP", 100) = Num(Frac(221, 2))
    /\ TotalCell(day_sheets[2], "PE BEP", 100) = Num(FracOfInt(94))
    /\ \E s \in StrikesOf(combined) : \E k \in Days :
          /\ \E j \in 1..k : HasRecord(j, s)
          /\ PositiveDays(k, s, "Call") = {}
          /\ PositiveDays(k, s, "Put") = {}
          /\ TotalCell(day_sheets[k], "CE BEP", s) = Num(FracOfInt(s))
          /\ TotalCell(day_sheets[k], "PE BEP", s) = Num(FracOfInt(s))

(***************************************************************************)
(* C8.  A pass of the day loop leaves, for a strike without a record on    *)
(* that day, the cumulative call and put money and both sides' reference   *)
(* sum and count as they were, and the day's snapshot of the strike (the   *)
(* running averages and break-even prices with it) equals the snapshot of  *)
(* the day before.                                                         *)
(***************************************************************************)
C8_AbsentDayFrame ==
    [][ (pc = "fold" /\ idx < Len(day_sheets) /\ idx' = idx + 1) =>
          \A s \in StrikesOf(combined) :
             ~HasRecord(idx + 1, s) =>
                /\ cum'.ce_money[s] = cum.ce_money[s]
                /\ cum'.pe_money[s] = cum.pe_money[s]
                /\ cum'.ce_ref_sum[s] = cum.ce_ref_sum[s]
                /\ cum'.ce_ref_count[s] = cum.ce_ref_count[s]
                /\ cum'.pe_ref_sum[s] = cum.pe_ref_sum[s]
                /\ cum'.pe_ref_count[s] = cum.pe_ref_count[s]
                /\ idx >= 1 =>
                      daily_calculated_dfs'[idx + 1].df[s] = daily_calculated_dfs[idx].df[s]
      ]_vars

\* The scenario of the specification: a strike with call money 40 on day 1 and
\* no record on day 2 has cumulative call money 40 on day 2, and its day-1
\* average is carried.
C8_Witness ==
    /\ pc = "done"
    /\ Len(daily_calculated_dfs) >= 2
    /\ \E s \in StrikesOf(combined) :
          /\ HasRecord(1, s)
          /\ RecordOf(1, s).Call_Chg_OI_Val = 40
          /\ ~HasRecord(2, s)
          /\ Snapshot(2)[s].CE_Money = 40
          /\ Snapshot(2)[s] = Snapshot(1)[s]

(***************************************************************************)
(* C9.  process_excel_file returns None in each whole-file failure case:   *)
(* the input cannot be opened or read as a workbook (bytes, file-like      *)
(* object or path), no sheet is selected, or every selected sheet fails to *)
(* parse.                                                                  *)
(***************************************************************************)
WholeFileFailure ==
    \/ ~input_source.openable
    \/ ~input_source.valid
    \/ day_sheets = <<>>
    \/ all_data = <<>>

C9_NoResultSignal == (pc = "done" /\ WholeFileFailure) => result = ReturnNone

(***************************************************************************)
(* The day blocks of the Max table: max_dfs is block, gap, block, ...      *)
(***************************************************************************)
MaxBuilt == max_dfs # <<>>

MaxBlock(k) == max_dfs[2 * k - 1]

\* Field j (1 strike, 2 money, 3 reference price, 4 break-even) of row r of
\* the side's ranked table in the block of day k.
BlockCell(k, r, side, j) ==
    MaxBlock(k).rows[r][(IF side = "Call" THEN 0 ELSE Len(CENames) + 1) + j]

\* The display rows that show a strike.
StrikeRows(k, side) == {r \in 0..(TopN - 1) : ~IsNaN(BlockCell(k, r, side, 1))}

SelectedStrikes(k, side) == {BlockCell(k, r, side, 1)[1] : r \in StrikeRows(k, side)}

RECURSIVE SumMoneyRows(_, _, _)
SumMoneyRows(k, side, rows) ==
    IF rows = {} THEN 0
    ELSE LET r == CHOOSE x \in rows : TRUE
         IN  BlockCell(k, r, side, 2)[1] + SumMoneyRows(k, side, rows \ {r})

RECURSIVE SumMoneyOver(_, _, _)
SumMoneyOver(df_source, side, strikes) ==
    IF strikes = {} THEN 0
    ELSE LET s == CHOOSE x \in strikes : TRUE
         IN  MetricOf(df_source, s, side) + SumMoneyOver(df_source, side, strikes \ {s})

Sides == {"Call", "Put"}

(***************************************************************************)
(* C5.  For every day and each side, the strikes get_top5_df selects are   *)
(* the first 5 of the day's snapshot in descending order of the side's     *)
(* cumulative money, strikes of equal money keeping their ascending strike *)
(* order, so that at the cut-off the lower strike is the one selected.     *)
(***************************************************************************)
C5_StableSelection ==
    MaxBuilt =>
        \A k \in Days : \A side \in Sides :
            SelectedStrikes(k, side) = StableTop(Snapshot(k), side)

(***************************************************************************)
(* C6.  For every day and side, the ranked table has exactly 5 display     *)
(* rows and then one totals row; the display rows show distinct strikes of *)
(* the snapshot with their cumulative money, the rows beyond the universe  *)
(* are blank, and the totals row holds the sum of the money of the strikes *)
(* shown (not of the whole universe), its strike, reference price and      *)
(* break-even fields blank.                                                *)
(***************************************************************************)
C6_RankedTable ==
    MaxBuilt =>
        \A k \in Days : \A side \in Sides :
            LET n    == Cardinality(DOMAIN Snapshot(k))
                rows == StrikeRows(k, side)
            IN  /\ MaxBlock(k).index = 0..TopN
                /\ Cardinality(rows) = Min(TopN, n)
                /\ Cardinality(SelectedStrikes(k, side)) = Cardinality(rows)
                /\ SelectedStrikes(k, side) \subseteq DOMAIN Snapshot(k)
                /\ \A r \in rows :
                      BlockCell(k, r, side, 2) =
                          Num(MetricOf(Snapshot(k), BlockCell(k, r, side, 1)[1], side))
                /\ \A r \in (0..(TopN - 1)) \ rows : \A j \in 1..4 :
                      IsNaN(BlockCell(k, r, side, j))
                /\ BlockCell(k, TopN, side, 2) = Num(SumMoneyRows(k, side, rows))
                /\ BlockCell(k, TopN, side, 2) =
                      Num(SumMoneyOver(Snapshot(k), side, SelectedStrikes(k, side)))
                /\ \A j \in {1, 3, 4} : IsNaN(BlockCell(k, TopN, side, j))

\* A finished run whose universe has more than 5 strikes: 5 rows show strikes
\* and the call totals differ from the sum over the whole universe.
C6_Witness ==
    /\ pc = "done"
    /\ result.kind = "bytes"
    /\ MaxBuilt
    /\ Cardinality(DOMAIN Snapshot(1)) > TopN
    /\ Cardinality(StrikeRows(1, "Call")) = TopN
    /\ BlockCell(1, TopN, "Call", 2) #
           Num(SumMoneyOver(Snapshot(1), "Call", DOMAIN Snapshot(1)))

\* A finished run whose universe has fewer than 5 strikes: the table is padded.
C6_PaddedRun ==
    /\ pc = "done"
    /\ MaxBuilt
    /\ Cardinality(DOMAIN Snapshot(1)) < TopN
    /\ IsNaN(BlockCell(1, TopN - 1, "Put", 1))

(***************************************************************************)
(* The workbook's names and the labels of the report tables' day blocks.   *)
(***************************************************************************)
WorkbookNames == SheetNames(input_source)

WorkbookRead == pc # "start" /\ input_source.openable /\ input_source.valid

\* The one-to-one upper-case mapping of a character.
UpperChar(c) ==
    IF \E i \in 1..Len(LowerLetters) : LowerLetters[i] = c
    THEN UpperLetters[CHOOSE i \in 1..Len(LowerLetters) : LowerLetters[i] = c]
    ELSE IF c = LongS THEN "S"
    ELSE IF c = DotlessI THEN "I"
    ELSE IF c = SmallEAcute THEN CapitalEAcute
    ELSE c

\* c is the letter p in some letter case: p is its lower case, or the two have
\* the same upper case (the long s and s, the dotless i and i).
SameLetter(c, p) == SimpleLower(c) = p \/ UpperChar(c) = UpperChar(p)

BeginsWithDayToken(name) ==
    \E t \in DayTokens :
        Len(name) >= Len(t) /\ \A i \in 1..Len(t) : SameLetter(name[i], t[i])

NonAscii == {DottedCapitalI, DotlessI, LongS, CombiningDot, CapitalEAcute, SmallEAcute}

PositionOf(name) == CHOOSE i \in 1..Len(WorkbookNames) : WorkbookNames[i] = name

IsDayLabel(d) == d # EmptyLabel /\ d # <<" ">>

RECURSIVE Collapse(_)
\* A sequence without its immediate repetitions.
Collapse(labels) ==
    IF Len(labels) <= 1 THEN labels
    ELSE IF labels[1] = labels[2] THEN Collapse(Tail(labels))
         ELSE << labels[1] >> \o Collapse(Tail(labels))

\* The day labels of a table's columns from left to right, the gaps left out.
BlockLabels(table) ==
    Collapse(SelectSeq([i \in 1..Len(table.columns) |-> table.columns[i].day], IsDayLabel))

(***************************************************************************)
(* C7.  get_day_sheets returns exactly the workbook's sheets whose name    *)
(* begins with a day-of-week token in any letter case (Unicode case: the   *)
(* long s and the dotless and dotted i included), none of them named       *)
(* 'Total' or 'Max' in any letter case, in the relative order in which the *)
(* workbook stores them; the k-th selected sheet is day k of the records,  *)
(* of the cumulative computation and of the day blocks, left to right, of  *)
(* the Total and the Max table.                                            *)
(***************************************************************************)
C7_DaySheetOrder ==
    WorkbookRead =>
        /\ Range(day_sheets) = {nm \in Range(WorkbookNames) : BeginsWithDayToken(nm)}
        /\ Cardinality(Range(day_sheets)) = Len(day_sheets)
        /\ \A i \in 1..Len(day_sheets) : Lower(day_sheets[i]) \notin OutputNames
        /\ \A i, j \in 1..Len(day_sheets) :
              i < j => PositionOf(day_sheets[i]) < PositionOf(day_sheets[j])
        /\ \A i \in 1..Len(Records) :
              Records[i].Sheet_Name = day_sheets[Records[i].Sheet_Index + 1]
        /\ \A k \in Days :
              /\ daily_calculated_dfs[k].sheet = day_sheets[k]
              /\ \A s \in DOMAIN Snapshot(k) : \A side \in Sides :
                    MetricOf(Snapshot(k), s, side) = MoneyThrough(k, s, side)
        /\ TotalBuilt => BlockLabels(final_total_df) = day_sheets
        /\ final_max_df # EmptyTable => BlockLabels(final_max_df) = day_sheets

\* A returned workbook with two selected sheets, one of them named in upper
\* case and one with a letter outside ASCII, stored around a sheet named Total
\* that was not selected.
C7_Witness ==
    /\ pc = "done"
    /\ result.kind = "bytes"
    /\ Len(day_sheets) = 2
    /\ \E nm \in Range(day_sheets) : nm # Lower(nm)
    /\ \E nm \in Range(day_sheets) : Range(nm) \cap NonAscii # {}
    /\ \E j \in 1..Len(WorkbookNames) :
          /\ Lower(WorkbookNames[j]) \in OutputNames
          /\ PositionOf(day_sheets[1]) < j
          /\ j < PositionOf(day_sheets[2])
    /\ BlockLabels(final_total_df) = day_sheets
    /\ BlockLabels(final_max_df) = day_sheets

(***************************************************************************)
(* What process_sheet_data made of the selected sheets read so far.        *)
(***************************************************************************)
ParsedThrough ==
    IF pc = "start" THEN 0 ELSE IF pc = "parse" THEN idx ELSE Len(day_sheets)

DaySheet(k) == SheetByName(input_source, day_sheets[k])

\* A header cell reads name when letter case is ignored and blanks are not.
HeaderCellReads(sh, name) ==
    \E c \in sh.cols :
        LET t == HeaderText(sh, c) IN t.name = name /\ ~t.lead /\ ~t.trail

HeaderNotFound(sh) ==
    ~(/\ sh.hdr < PreviewRows
      /\ HeaderCellReads(sh, "Strike") \/ HeaderCellReads(sh, "Chg in OI Value"))

\* The sheet has a column whose trimmed name is exactly col.
HasColumn(sh, col) == ColumnsNamed(df_columns(sh), col) # {}

\* Two columns of the sheet have the same trimmed name, one the program reads.
SharedName(sh) ==
    LET columns == df_columns(sh)
    IN  \E p, q \in columns : p[1] # q[1] /\ p[2] = q[2] /\ \E col \in RequiredCols : p[2] = Literal(col)

DayHasRecords(k) == \E i \in 1..Len(Records) : Records[i].Sheet_Index = k - 1

\* The strikes the rows of a sheet name.
RowStrikes(sh) ==
    LET columns == df_columns(sh)
        StrikeCell(i) == ColumnOrZero(columns, sh.rows[i], "Strike")
    IN  {StrikeCell(i)[1] : i \in {i \in 1..Len(sh.rows) : ~IsNaN(StrikeCell(i))}}

SkipCondition(sh) ==
    \/ HeaderNotFound(sh)
    \/ ~HasColumn(sh, "Strike")
    \/ ~HasColumn(sh, "Chg in OI Value")
    \/ SharedName(sh)

(***************************************************************************)
(* What the program skips.  A selected sheet yields no records, and adds   *)
(* no strike to the universe, exactly when its header row is not found in  *)
(* the first 10 rows (a row is the header row when one of its cells reads  *)
(* 'strike' or 'chg in oi value', letter case ignored, blanks around the   *)
(* text not), or no column is named exactly Strike, or none exactly Chg in *)
(* OI Value, once the names are trimmed, or two columns share a trimmed    *)
(* name that the program reads; a sheet that lacks only VWAP, LTP (Chg %)  *)
(* or .1 columns is parsed, the missing columns reading 0.  A skipped day  *)
(* leaves the snapshot of the day before as it is, and when at least one   *)
(* sheet parsed both tables are built.                                     *)
(***************************************************************************)
SkipsAsProgrammed ==
    /\ \A k \in 1..ParsedThrough :
          LET sh == DaySheet(k)
          IN  /\ SkipCondition(sh) => ~DayHasRecords(k)
              /\ ~SkipCondition(sh) =>
                    /\ {s \in RowStrikes(sh) : HasRecord(k, s)} = RowStrikes(sh)
                    /\ \A i \in 1..Len(Records) :
                          Records[i].Sheet_Index = k - 1 =>
                             /\ Records[i].Strike \in RowStrikes(sh)
                             /\ ~HasColumn(sh, "VWAP") => Records[i].Call_VWAP = 0
                             /\ ~HasColumn(sh, "LTP (Chg %)") => Records[i].Call_LTP = 0
                             /\ ~HasColumn(sh, "Chg in OI Value.1") =>
                                   Records[i].Put_Chg_OI_Val = 0
                             /\ ~HasColumn(sh, "VWAP.1") => Records[i].Put_VWAP = 0
                             /\ ~HasColumn(sh, "LTP (Chg %).1") => Records[i].Put_LTP = 0
    /\ combined # <<>> =>
          StrikesOf(combined) =
              UNION {RowStrikes(DaySheet(k)) :
                        k \in {j \in 1..Len(day_sheets) : ~SkipCondition(DaySheet(j))}}
    /\ \A k \in Days :
          (k > 1 /\ SkipCondition(DaySheet(k))) => Snapshot(k) = Snapshot(k - 1)
    /\ (pc = "done" /\ all_data # <<>>) => TotalBuilt /\ MaxBuilt

(***************************************************************************)
(* C10.  A selected sheet yields no records whenever its header row is not *)
(* found in the first 10 rows or any one of the required columns (Strike,  *)
(* Chg in OI Value, VWAP, LTP (Chg %) and the .1 columns) is missing; the  *)
(* skip is not fatal: a run in which at least one sheet parsed returns a   *)
(* result.                                                                 *)
(* Two runs refute it.  A workbook with a skipped day sheet, a parsed day  *)
(* sheet and a sheet named MAX builds both tables and then raises in the   *)
(* write step, so no result is returned although a sheet parsed.  A sheet  *)
(* that lacks only VWAP, LTP (Chg %) or .1 columns is parsed, not skipped. *)
(***************************************************************************)
C10_AnyMissingColumnSkips ==
    /\ \A k \in 1..ParsedThrough :
          (HeaderNotFound(DaySheet(k)) \/ \E col \in RequiredCols : ~HasColumn(DaySheet(k), col))
              => ~DayHasRecords(k)
    /\ (pc = "done" /\ all_data # <<>>) => result.kind = "bytes"

PricingDone == pc \in {"fold", "max", "write"} \/ (pc = "done" /\ combined # <<>>)

(***************************************************************************)
(* C11 as stated.  The pricing mode of a strike is decided only from its   *)
(* record of day index 0: ForceLTP if that record's call VWAP is <= 0,     *)
(* Standard otherwise, and Standard for a strike without a record on day   *)
(* index 0, whatever its call VWAP on the day it first appears.            *)
(***************************************************************************)
C11_DayZeroMode ==
    PricingDone =>
        \A s \in StrikesOf(combined) :
            strike_pricing_mode[s] =
                IF HasRecord(1, s) /\ RecordOf(1, s).Call_VWAP <= 0
                THEN "LTP" ELSE "Standard"

(***************************************************************************)
(* C11 amended.  The pricing mode of a strike is decided only from the     *)
(* strike's earliest record, the record of the lowest day index on which   *)
(* the strike has one: ForceLTP if its call VWAP is <= 0, Standard         *)
(* otherwise.  Every strike of the universe has a mode, so the default     *)
(* Standard never applies, and a strike that first appears on a later day  *)
(* with call VWAP <= 0 is ForceLTP.                                        *)
(***************************************************************************)
C11_EarliestRecordMode ==
    PricingDone =>
        /\ DOMAIN strike_pricing_mode = StrikesOf(combined)
        /\ \A s \in StrikesOf(combined) :
              strike_pricing_mode[s] =
                  IF EarliestRecord(s).Call_VWAP <= 0 THEN "LTP" ELSE "Standard"

\* A finished run with a strike that has no record on day index 0, is first
\* seen with call VWAP <= 0, and on a later day has a positive call VWAP, unlike
\* its LTP, that is not used.
C11_Witness ==
    /\ pc = "done"
    /\ result.kind = "bytes"
    /\ \E s \in StrikesOf(combined) :
          /\ ~HasRecord(1, s)
          /\ EarliestRecord(s).Call_VWAP <= 0
          /\ strike_pricing_mode[s] = "LTP"
          /\ \E k \in Days :
                /\ HasRecord(k, s)
                /\ RecordOf(k, s).Call_VWAP > 0
                /\ RecordOf(k, s).Call_VWAP # RecordOf(k, s).Call_LTP
                /\ UsedRef(k, s, "Call") = RecordOf(k, s).Call_LTP

(***************************************************************************)
(* C12.  The reference price of (strike, day, side) is the side's LTP when *)
(* the strike's mode is ForceLTP, otherwise the side's VWAP if it is > 0   *)
(* and the side's LTP if not.  The mode is one value per strike, derived   *)
(* from the call VWAP only and applied to both sides: a strike whose first *)
(* call VWAP is positive is priced Standard on the put side also when its  *)
(* first put VWAP is <= 0.  Once computed the mode table never changes.    *)
(***************************************************************************)
C12_ReferencePrice ==
    /\ [](\A i \in 1..Len(combined) :
            LET s    == combined[i].Strike
                raw  == RecordOf(combined[i].Sheet_Index + 1, s)
                mode == strike_pricing_mode[s]
                Ref(side) == IF mode = "LTP" THEN SideLTP(raw, side)
                             ELSE IF SideVWAP(raw, side) > 0 THEN SideVWAP(raw, side)
                                  ELSE SideLTP(raw, side)
            IN  /\ mode \in {"LTP", "Standard"}
                /\ combined[i].Call_Ref_Price = Ref("Call")
                /\ combined[i].Put_Ref_Price = Ref("Put")
                /\ EarliestRecord(s).Call_VWAP > 0 =>
                      /\ mode = "Standard"
                      /\ combined[i].Put_Ref_Price =
                            IF raw.Put_VWAP > 0 THEN raw.Put_VWAP ELSE raw.Put_LTP)
    /\ [][PricingDone => strike_pricing_mode' = strike_pricing_mode]_vars

\* A finished run with a strike whose first record has a positive call VWAP
\* and a put VWAP <= 0, and which on a later day has a positive put VWAP,
\* unlike its put LTP, that is used.
C12_Witness ==
    /\ pc = "done"
    /\ result.kind = "bytes"
    /\ \E s \in StrikesOf(combined) :
          /\ EarliestRecord(s).Call_VWAP > 0
          /\ EarliestRecord(s).Put_VWAP <= 0
          /\ strike_pricing_mode[s] = "Standard"
          /\ \E k \in Days :
                /\ HasRecord(k, s)
                /\ RecordOf(k, s).Put_VWAP > 0
                /\ RecordOf(k, s).Put_VWAP # RecordOf(k, s).Put_LTP
                /\ UsedRef(k, s, "Put") = RecordOf(k, s).Put_VWAP

\* The strikes that have a record on some day.
Universe == {s \in StrikesOf(Records) : \E k \in 1..Len(day_sheets) : HasRecord(k, s)}

IsSpacer(col) == col.name = "" \/ col.name = " "

(***************************************************************************)
(* C13.  The Total table has exactly one row per strike of the universe,   *)
(* in ascending strike order, and for the D selected day sheets one block  *)
(* of 4 columns per day in day order (call BEP, call money, put money, put *)
(* BEP) labelled by the day, one blank spacer column between consecutive   *)
(* blocks and none after the last, 5 * D - 1 columns in all; the spacer    *)
(* columns hold no value.                                                  *)
(***************************************************************************)
C13_TotalLayout ==
    TotalBuilt =>
        LET D    == Len(day_sheets)
            cols == final_total_df.columns
            ix   == final_total_df.index
        IN  /\ Range(ix) = Universe
            /\ Len(ix) = Cardinality(Universe)
            /\ \A i, j \in 1..Len(ix) : i < j => ix[i] < ix[j]
            /\ DOMAIN final_total_df.rows = Universe
            /\ Len(cols) = 5 * D - 1
            /\ \A k \in 1..D :
                  /\ cols[5 * (k - 1) + 1] = Col(day_sheets[k], "CE BEP")
                  /\ cols[5 * (k - 1) + 2] = Col(day_sheets[k], "CE Money")
                  /\ cols[5 * (k - 1) + 3] = Col(day_sheets[k], "PE Money")
                  /\ cols[5 * (k - 1) + 4] = Col(day_sheets[k], "PE BEP")
            /\ \A k \in 1..(D - 1) : cols[5 * k] = Col(EmptyLabel, "")
            /\ \A s \in Universe :
                  /\ Len(final_total_df.rows[s]) = Len(cols)
                  /\ \A c \in 1..Len(cols) :
                        IsNaN(final_total_df.rows[s][c]) <=> IsSpacer(cols[c])

\* A returned workbook of three day sheets over two strikes: 14 columns, the
\* fifth and the tenth blank.
C13_Witness ==
    /\ pc = "done"
    /\ result.kind = "bytes"
    /\ Len(day_sheets) = 3
    /\ Cardinality(Universe) = 2
    /\ Len(final_total_df.columns) = 14
    /\ final_total_df.index = <<100, 200>>
    /\ IsSpacer(final_total_df.columns[5])
    /\ IsSpacer(final_total_df.columns[10])
    /\ final_total_df.columns[14] = Col(day_sheets[3], "PE BEP")

MaxTableBuilt == final_max_df # EmptyTable

\* Per day a block of 9 columns labelled by the day (4 call columns, a blank
\* one, 4 put columns), 2 blank columns between the blocks of consecutive days
\* and none after the last: 11 * D - 2 columns.
MaxColumnsLayout ==
    LET D     == Len(day_sheets)
        cols  == final_max_df.columns
        names == CENames \o <<"">> \o PENames
    IN  /\ Len(cols) = 11 * D - 2
        /\ \A k \in 1..D : \A j \in 1..9 :
              cols[11 * (k - 1) + j] = Col(day_sheets[k], names[j])
        /\ \A k \in 1..(D - 1) :
              /\ IsSpacer(cols[11 * k - 1]) /\ ~IsDayLabel(cols[11 * k - 1].day)
              /\ IsSpacer(cols[11 * k]) /\ ~IsDayLabel(cols[11 * k].day)

(***************************************************************************)
(* C14.  For any number D >= 1 of days the Max table has exactly 6 data    *)
(* rows (5 ranked rows and the totals row) and per day one block of 9      *)
(* columns labelled by the day, with exactly 2 blank spacer columns        *)
(* between the blocks of consecutive days and none after the last,         *)
(* 11 * D - 2 columns in all.                                              *)
(***************************************************************************)
C14_MaxLayout ==
    MaxTableBuilt =>
        /\ Len(final_max_df.rows) = TopN + 1
        /\ Len(final_max_df.index) = TopN + 1
        /\ MaxColumnsLayout

(***************************************************************************)
(* C15.  In every ranked table the selected rows (at most 5) come first,   *)
(* in strictly descending strike order whatever their money, the blank     *)
(* padding rows come after all of them and the totals row is last; the     *)
(* strikes shown are the ones head(5) kept: as many as min(5, universe),   *)
(* none with less money than a strike left out.                            *)
(***************************************************************************)
C15_DisplayOrder ==
    MaxBuilt =>
        \A k \in Days : \A side \in Sides :
            LET rows == StrikeRows(k, side)
                m    == Cardinality(rows)
            IN  /\ rows = 0..(m - 1)
                /\ \A r, q \in rows :
                      r < q => BlockCell(k, r, side, 1)[1] > BlockCell(k, q, side, 1)[1]
                /\ \A r \in m..(TopN - 1) : IsNaN(BlockCell(k, r, side, 2))
                /\ IsNaN(BlockCell(k, TopN, side, 1))
                /\ ~IsNaN(BlockCell(k, TopN, side, 2))
                /\ MaxBlock(k).index = 0..TopN
                /\ SelectedStrikes(k, side) \in TopChoices(Snapshot(k), side)

\* A finished run over more than 5 strikes whose call table shows a strike
\* above one of more money, and whose put table shows other strikes than the
\* call table.
C15_Witness ==
    /\ pc = "done"
    /\ result.kind = "bytes"
    /\ MaxBuilt
    /\ Cardinality(DOMAIN Snapshot(1)) > TopN
    /\ \E r, q \in StrikeRows(1, "Call") :
          /\ r < q
          /\ BlockCell(1, r, "Call", 1)[1] > BlockCell(1, q, "Call", 1)[1]
          /\ BlockCell(1, r, "Call", 2)[1] < BlockCell(1, q, "Call", 2)[1]
    /\ SelectedStrikes(1, "Call") # SelectedStrikes(1, "Put")

(***************************************************************************)
(* The snapshot of day k recomputed from the records of days 1..k only.    *)
(***************************************************************************)
PrefixDays(k, s) == {j \in 1..k : HasRecord(j, s)}

\* The mode as decided among the records of days 1..k.
PrefixMode(k, s) ==
    LET first == CHOOSE j \in PrefixDays(k, s) : \A i \in PrefixDays(k, s) : j <= i
    IN  IF RecordOf(first, s).Call_VWAP <= 0 THEN "LTP" ELSE "Standard"

RECURSIVE SumOver(_, _)
\* The sum of f over the set S.
SumOver(f, S) ==
    IF S = {} THEN 0
    ELSE LET x == CHOOSE y \in S : TRUE
         IN  f[x] + SumOver(f, S \ {x})

PrefixAvg(k, s, side) ==
    LET days  == PrefixDays(k, s)
        mode  == IF days = {} THEN "Standard" ELSE PrefixMode(k, s)
        refs  == [j \in days |->
                    LET raw == RecordOf(j, s)
                    IN  IF mode = "LTP" THEN SideLTP(raw, side)
                        ELSE IF SideVWAP(raw, side) > 0 THEN SideVWAP(raw, side)
                             ELSE SideLTP(raw, side)]
        count == Cardinality({j \in days : refs[j] > 0})
    IN  IF count = 0 THEN FracOfInt(0)
        ELSE Frac(SumOver(refs, days), count)

PrefixSnapshot(k, s) ==
    LET avg_ce == PrefixAvg(k, s, "Call")
        avg_pe == PrefixAvg(k, s, "Put")
    IN  [ CE_BEP     |-> IntPlusFrac(s, avg_ce),
          CE_Money   |-> MoneyThrough(k, s, "Call"),
          PE_Money   |-> MoneyThrough(k, s, "Put"),
          PE_BEP     |-> IntMinusFrac(s, avg_pe),
          Avg_CE_Ref |-> avg_ce,
          Avg_PE_Ref |-> avg_pe ]

(***************************************************************************)
(* C16.  For every day k and every strike of the universe, the cumulative  *)
(* call and put money, the running-average call and put reference prices   *)
(* and the call and put break-even prices of the day-k snapshot are what   *)
(* the records of days 1..k alone give: they are the same whatever the     *)
(* days after k hold, and they stay as they are while later days are       *)
(* folded.                                                                 *)
(***************************************************************************)
C16_SnapshotOfPrefix ==
    /\ [](\A k \in Days : \A s \in DOMAIN Snapshot(k) :
             Snapshot(k)[s] = PrefixSnapshot(k, s))
    /\ [][\A k \in Days : daily_calculated_dfs'[k] = daily_calculated_dfs[k]]_vars

\* A finished run of three days: a strike first seen on day 2 is in the day-1
\* snapshot with no money and its break-even prices at the strike, and a strike
\* with records on days 1 and 3 has a day-3 snapshot unlike its day-1 snapshot.
C16_Witness ==
    /\ pc = "done"
    /\ Len(daily_calculated_dfs) = 3
    /\ \E s \in StrikesOf(combined) :
          /\ ~HasRecord(1, s)
          /\ HasRecord(2, s)
          /\ Snapshot(1)[s].CE_Money = 0
          /\ Snapshot(1)[s].CE_BEP = FracOfInt(s)
          /\ Snapshot(2)[s] # Snapshot(1)[s]
    /\ \E t \in StrikesOf(combined) :
          /\ HasRecord(1, t)
          /\ HasRecord(3, t)
          /\ Snapshot(3)[t] # Snapshot(1)[t]
          /\ Snapshot(1)[t] = PrefixSnapshot(1, t)

(***************************************************************************)
(* C17.  A second run of process_excel_file on the workbook a first run    *)
(* returned selects the same day sheets in the same order, builds a Total  *)
(* and a Max table equal to those of the first run, and returns a workbook *)
(* with the same sheets in the same places: Total and Max are replaced,    *)
(* not added again, and every other sheet is as it was.                    *)
(* A workbook whose day sheet holds formulas refutes it: the returned      *)
(* workbook keeps the formulas without their stored values, and the second *)
(* run reads those cells as NaN.                                           *)
(***************************************************************************)
C17_RerunIdempotent ==
    first_run.ran =>
        /\ pc # "start" => day_sheets = first_run.day_sheets
        /\ \A i \in 1..Len(first_run.source) :
              first_run.source[i].name \notin {NameTotal, NameMax} =>
                  input_source.sheets[i] = first_run.source[i]
        /\ pc = "done" =>
              /\ result.kind = "bytes"
              /\ result.sheets = first_run.sheets
              /\ result.sheets = SheetNames(input_source)
              /\ final_total_df = first_run.total
              /\ final_max_df = first_run.max

\* Field j (1 strike, 2 money, 3 reference price, 4 break-even) of display row
\* r (from 0) of the side's ranked table of day k, read from the Max table.
MaxCell(k, r, side, j) ==
    final_max_df.rows[r + 1][11 * (k - 1) + (IF side = "Call" THEN 0 ELSE 5) + j]

(***************************************************************************)
(* C18.  For every day, every side and every ranked row of the Max table   *)
(* that shows a strike, the strike belongs to the universe (it is a row of *)
(* the Total table), the row's money is the Total table's cumulative money *)
(* of the strike, side and day, and the row's break-even price is the      *)
(* Total table's break-even price of the strike, side and day: the strike  *)
(* plus the row's average call reference for calls, the strike minus the   *)
(* row's average put reference for puts.                                   *)
(***************************************************************************)
C18_TablesAgree ==
    (TotalBuilt /\ MaxTableBuilt) =>
        \A k \in 1..Len(day_sheets) : \A side \in Sides : \A r \in 0..(TopN - 1) :
            ~IsNaN(MaxCell(k, r, side, 1)) =>
                LET s     == MaxCell(k, r, side, 1)[1]
                    money == IF side = "Call" THEN "CE Money" ELSE "PE Money"
                    bep   == IF side = "Call" THEN "CE BEP" ELSE "PE BEP"
                IN  /\ s \in Universe
                    /\ s \in Range(final_total_df.index)
                    /\ MaxCell(k, r, side, 2) = TotalCell(day_sheets[k], money, s)
                    /\ MaxCell(k, r, side, 4) = TotalCell(day_sheets[k], bep, s)
                    /\ MaxCell(k, r, side, 4) =
                          Num(IF side = "Call"
                              THEN IntPlusFrac(s, MaxCell(k, r, side, 3)[1])
                              ELSE IntMinusFrac(s, MaxCell(k, r, side, 3)[1]))

\* A returned workbook of two days or more in which the first call row of day 2
\* shows a strike whose money is not what the same strike shows on day 1, with a
\* break-even price away from the strike, and the last ranked row is padding.
C18_Witness ==
    /\ pc = "done"
    /\ result.kind = "bytes"
    /\ Len(day_sheets) >= 2
    /\ ~IsNaN(MaxCell(2, 0, "Call", 1))
    /\ LET s == MaxCell(2, 0, "Call", 1)[1]
       IN  /\ TotalCell(day_sheets[2], "CE Money", s) # TotalCell(day_sheets[1], "CE Money", s)
           /\ MaxCell(2, 0, "Call", 2) = TotalCell(day_sheets[2], "CE Money", s)
           /\ MaxCell(2, 0, "Call", 4) # Num(FracOfInt(s))
           /\ MaxCell(2, 0, "Call", 2) # MaxCell(2, 0, "Put", 2)
    /\ IsNaN(MaxCell(2, TopN - 1, "Put", 1))

====
